---- MODULE Spec2Model ----
(***************************************************************************)
(* codepipeline-status: a one-shot terminal dashboard (src/src/main.rs).   *)
(* main fetches the stage list of one pipeline, logs every stage, then     *)
(* paints one frame: two section headers, one coloured panel per stage and *)
(* one borderless placeholder per stage.                                   *)
(*                                                                         *)
(* The model follows main statement by statement; pc is main's position.   *)
(* Layout::split is the tui crate's and is not part of the source tree:    *)
(* partition models it from the specification's section 4.1.               *)
(***************************************************************************)
EXTENDS Integers, Sequences, FiniteSets, TLC

VARIABLES
    pc,             \* position of main
    failure,        \* why main ended abnormally ("" while it has not)
    log,            \* log events emitted so far: [level, msg, stage]
    pipelines_list, \* Some(list of pipelines) fetched by list_pipelines
    pipeline_name,  \* name of the pipeline picked by find
    stage_states,   \* the fetched stage list
    cleared,        \* terminal.clear() has run
    size,           \* f.size(): the terminal's rectangle
    sections,       \* the two section rectangles
    stage_chunks,   \* one rectangle per stage inside "Stages"
    commit_chunks,  \* one rectangle per stage inside "Commits"
    k,              \* index of the next element of the running iterator
    frame,          \* draw commands issued so far (render_widget calls)
    p_in,           \* partition probe: the arguments
    p_out           \* partition probe: the result

vars == << pc, failure, log, pipelines_list, pipeline_name, stage_states,
           cleared, size, sections, stage_chunks, commit_chunks, k, frame,
           p_in, p_out >>

----------------------------------------------------------------------------
(* Bounds of the model *)

MaxStages == 3
MaxPipelines == 2
MaxWidth == 8
MaxHeight == 5
MaxSide == 9
MaxMargin == 2
MaxCount == 4
MaxOrigin == 1

----------------------------------------------------------------------------
(* Option values *)

Some(x) == [some |-> TRUE, v |-> x]
NoneStr == [some |-> FALSE, v |-> ""]
NoneSeq == [some |-> FALSE, v |-> << >>]

Min(a, b) == IF a < b THEN a ELSE b
Max(a, b) == IF a > b THEN a ELSE b

----------------------------------------------------------------------------
(* Geometry *)

Rect(x, y, w, h) == [x |-> x, y |-> y, width |-> w, height |-> h]

NoRect == Rect(0, 0, 0, 0)

\* The interior of area after removing margin from all four sides, each
\* dimension clamped at zero.
inner(area, margin) ==
    Rect(area.x + margin, area.y + margin,
         Max(0, area.width - 2 * margin), Max(0, area.height - 2 * margin))

\* inner without the clamp: what a plain subtraction would give.
inner_noclamp(area, margin) ==
    Rect(area.x + margin, area.y + margin,
         area.width - 2 * margin, area.height - 2 * margin)

\* Start of span j (0-based) of count equal-weight spans of length len.
span_start(len, j, count) == (len * j) \div count

\* Every span floor(len / count) wide: the remainder is dropped.
partition_trunc(area, direction, margin, count) ==
    LET i == inner(area, margin)
        len == IF direction = "Horizontal" THEN i.width ELSE i.height
        w == IF count = 0 THEN 0 ELSE len \div count
    IN  [j \in 1..count |->
            IF direction = "Horizontal"
            THEN Rect(i.x + (j - 1) * w, i.y, w, i.height)
            ELSE Rect(i.x, i.y + (j - 1) * w, i.width, w)]

\* The margin subtracted without clamping.
partition_noclamp(area, direction, margin, count) ==
    LET i == inner_noclamp(area, margin)
        len == IF direction = "Horizontal" THEN i.width ELSE i.height
    IN  [j \in 1..count |->
            LET s == span_start(len, j - 1, count)
                e == span_start(len, j, count)
            IN  IF direction = "Horizontal"
                THEN Rect(i.x + s, i.y, e - s, i.height)
                ELSE Rect(i.x, i.y + s, i.width, e - s)]

\* Layout::default().direction(d).margin(m).constraints([Ratio(1, count); count])
\*     .split(area)
partition(area, direction, margin, count) ==
    LET i == inner(area, margin)
        len == IF direction = "Horizontal" THEN i.width ELSE i.height
    IN  [j \in 1..count |->
            LET s == span_start(len, j - 1, count)
                e == span_start(len, j, count)
            IN  IF direction = "Horizontal"
                THEN Rect(i.x + s, i.y, e - s, i.height)
                ELSE Rect(i.x, i.y + s, i.width, e - s)]

----------------------------------------------------------------------------
(* The partition applied to bounded inputs *)

Directions == {"Horizontal", "Vertical"}

NoProbe == [area |-> NoRect, direction |-> "", margin |-> 0, count |-> 0]

ProbeInputs ==
    [area : { Rect(x, y, w, h) : x \in {0, MaxOrigin}, y \in {0, MaxOrigin},
                                 w \in 0..MaxSide, h \in {0, 1, 2, MaxSide} },
     direction : Directions,
     margin : 0..MaxMargin,
     count : 1..MaxCount]

MainIdle ==
    /\ failure = ""
    /\ log = << >>
    /\ pipelines_list = NoneSeq
    /\ pipeline_name = << >>
    /\ stage_states = << >>
    /\ cleared = FALSE
    /\ size = NoRect
    /\ sections = << >>
    /\ stage_chunks = << >>
    /\ commit_chunks = << >>
    /\ k = 0
    /\ frame = << >>

mainVars == << pc, failure, log, pipelines_list, pipeline_name, stage_states,
               cleared, size, sections, stage_chunks, commit_chunks, k, frame >>

InitPartition ==
    /\ pc = "probe"
    /\ MainIdle
    /\ p_in \in ProbeInputs
    /\ p_out = << >>

Split ==
    /\ pc = "probe"
    /\ pc' = "probed"
    /\ p_out' = partition(p_in.area, p_in.direction, p_in.margin, p_in.count)
    /\ UNCHANGED << failure, log, pipelines_list, pipeline_name, stage_states,
                    cleared, size, sections, stage_chunks, commit_chunks, k,
                    frame, p_in >>

NextPartition == Split

SpecPartition == InitPartition /\ [][NextPartition]_vars

----------------------------------------------------------------------------
(* Inputs of the program: what the collaborators may return *)

\* The name fragment main looks for, and names as sequences of pieces.
Fragment == << "David", "Test", "Stack" >>

PipelineNames ==
    { NoneSeq,
      Some(<< "Other" >>),
      Some(<< "David", "Test" >>),
      Some(<< "cdk", "David", "Test", "Stack", "Pipeline" >>) }

Pipelines == [name : PipelineNames]

PipelineLists == UNION { [1..n -> Pipelines] : n \in 0..MaxPipelines }

StatusCodes == {"InProgress", "Failed", "Succeeded", "Paused"}

Executions == {NoneStr} \cup { Some(s) : s \in StatusCodes }

\* The name of the stage in position j of the fetched list.
StageName(j) ==
    CASE j = 1 -> "Build"
      [] j = 2 -> "Test"
      [] j = 3 -> "Deploy"
      [] j = 4 -> "Release"
      [] OTHER -> "Extra"

StageListsOfLen(n) ==
    { [j \in 1..n |->
          [stage_name |-> IF c[j].named THEN Some(StageName(j)) ELSE NoneStr,
           latest_execution |-> c[j].exec]] :
      c \in [1..n -> [named : BOOLEAN, exec : Executions]] }

StageLists == UNION { StageListsOfLen(n) : n \in 0..MaxStages }

\* The end-to-end scenario of the specification's section 8.
ScenarioSize == Rect(0, 0, 120, 40)

ScenarioStages ==
    << [stage_name |-> Some("Build"), latest_execution |-> Some("Succeeded")],
       [stage_name |-> Some("Test"), latest_execution |-> Some("Failed")],
       [stage_name |-> Some("Deploy"), latest_execution |-> NoneStr] >>

TermSizes ==
    { Rect(0, 0, w, h) : w \in 0..MaxWidth, h \in 0..MaxHeight }
        \cup {ScenarioSize}

----------------------------------------------------------------------------
(* Pure parts of main *)

\* name.find("DavidTestStack").is_some()
Contains(name, frag) ==
    \E i \in 1..(Len(name) - Len(frag) + 1) :
        SubSeq(name, i, i + Len(frag) - 1) = frag

\* The closure of find: a pipeline with a name that contains the fragment.
Matches(pipeline) ==
    IF pipeline.name.some THEN Contains(pipeline.name.v, Fragment) ELSE FALSE

Event(level, msg, stage) == [level |-> level, msg |-> msg, stage |-> stage]

\* One arm of the inspection pass.
Inspect(elem, j) ==
    IF elem.latest_execution.some /\ elem.stage_name.some
    THEN Event("info", "Stage has status", j)
    ELSE Event("error", "Could not inspect stage", j)

AccentColor == "Rgb(255,178,102)"

Widget(site, title, bold, border_type, borders, fg, area) ==
    [site |-> site, title |-> title, bold |-> bold, border_type |-> border_type,
     borders |-> borders, fg |-> fg, area |-> area]

\* Red and green exchanged.
border_color_swapped(latest_execution) ==
    IF latest_execution.some
    THEN CASE latest_execution.v = "InProgress" -> "LightBlue"
           [] latest_execution.v = "Failed" -> "Green"
           [] latest_execution.v = "Succeeded" -> "Red"
           [] OTHER -> "LightYellow"
    ELSE "Red"

\* The match on state.latest_execution that picks the border colour.
border_color(latest_execution) ==
    IF latest_execution.some
    THEN CASE latest_execution.v = "InProgress" -> "LightBlue"
           [] latest_execution.v = "Failed" -> "Red"
           [] latest_execution.v = "Succeeded" -> "Green"
           [] OTHER -> "LightYellow"
    ELSE "Red"

Titles == << "Stages", "Commits" >>

\* The block rendered for a section title.
SectionHeader(title, chunk) ==
    Widget("section", Some(title), TRUE, "Thick", "ALL", AccentColor, chunk)

\* The block rendered for a stage whose name is present.
StagePanel(state, chunk) ==
    Widget("stage", Some(state.stage_name.v), TRUE, "Thick", "ALL",
           border_color(state.latest_execution), chunk)

\* The block rendered into a cell of the "Commits" section.
Placeholder(chunk) ==
    Widget("commit", NoneStr, FALSE, "Plain", "NONE", "None", chunk)

\* Each element paired with the rectangle in the mirrored position.
zip_reversed(xs, chunks) ==
    LET n == Min(Len(xs), Len(chunks))
    IN  [j \in 1..n |-> << xs[j], chunks[n + 1 - j] >>]

\* Iterator::zip: pairs in order, as long as both sides have elements.
zip(xs, chunks) ==
    [j \in 1..Min(Len(xs), Len(chunks)) |-> << xs[j], chunks[j] >>]

----------------------------------------------------------------------------
(* main, statement by statement *)

Init ==
    /\ pc = "setup"
    /\ MainIdle
    /\ p_in = NoProbe
    /\ p_out = << >>

\* main returns Err(why): the ? operator.
Fail(why) ==
    /\ pc' = "error"
    /\ failure' = why

\* main unwinds: unwrap() of a None.
Panic(why) ==
    /\ pc' = "panicked"
    /\ failure' = why

\* Logger, credentials and HTTP client are set up.
Setup ==
    /\ pc = "setup"
    /\ \E ok \in BOOLEAN :
          IF ok THEN pc' = "list" /\ failure' = failure ELSE Fail("setup")
    /\ UNCHANGED << log, pipelines_list, pipeline_name, stage_states, cleared,
                    size, sections, stage_chunks, commit_chunks, k, frame,
                    p_in, p_out >>

\* list_pipelines(..).await? and pipelines.ok_or("No pipelines!")?
ListPipelines ==
    /\ pc = "list"
    /\ \E ok \in BOOLEAN, pipelines \in {NoneSeq} \cup { Some(l) : l \in PipelineLists } :
          IF ~ok
          THEN /\ Fail("list_pipelines")
               /\ log' = Append(log, Event("info", "Getting pipelines list...", 0))
               /\ pipelines_list' = pipelines_list
          ELSE /\ log' = log \o << Event("info", "Getting pipelines list...", 0),
                                   Event("info", "Successfully listed pipelines.", 0) >>
               /\ IF pipelines.some
                  THEN /\ pipelines_list' = pipelines
                       /\ pc' = "find"
                       /\ failure' = failure
                  ELSE /\ Fail("No pipelines!")
                       /\ pipelines_list' = pipelines_list
    /\ UNCHANGED << pipeline_name, stage_states, cleared, size, sections,
                    stage_chunks, commit_chunks, k, frame, p_in, p_out >>

\* into_iter().find(..).ok_or_else(..)? and name.unwrap(); the list is consumed.
FindPipeline ==
    /\ pc = "find"
    /\ LET l == pipelines_list.v
           hits == { i \in 1..Len(l) : Matches(l[i]) }
       IN  IF hits = {}
           THEN /\ Fail("Couldn't find the DavidTestStack pipeline!")
                /\ pipeline_name' = pipeline_name
           ELSE /\ pipeline_name' =
                       l[CHOOSE i \in hits : \A j \in hits : i <= j].name.v
                /\ pc' = "get_state"
                /\ failure' = failure
    /\ pipelines_list' = NoneSeq
    /\ UNCHANGED << log, stage_states, cleared, size, sections, stage_chunks,
                    commit_chunks, k, frame, p_in, p_out >>

\* A failed request is logged and treated as a pipeline without stages.
GetPipelineState_swallow ==
    /\ pc = "get_state"
    /\ \E ok \in BOOLEAN, states \in {NoneSeq} \cup { Some(l) : l \in StageLists } :
          IF ~ok
          THEN /\ pc' = "inspect"
               /\ failure' = "get_pipeline_state"
               /\ log' = Append(log, Event("info", "Getting info for pipeline", 0))
               /\ stage_states' = << >>
          ELSE /\ log' = log \o << Event("info", "Getting info for pipeline", 0),
                                   Event("info", "Successfully got info for pipeline", 0) >>
               /\ IF states.some
                  THEN /\ stage_states' = states.v
                       /\ pc' = "inspect"
                       /\ failure' = failure
                  ELSE /\ Panic("stage_states.unwrap")
                       /\ stage_states' = stage_states
    /\ UNCHANGED << pipelines_list, pipeline_name, cleared, size, sections,
                    stage_chunks, commit_chunks, k, frame, p_in, p_out >>

\* get_pipeline_state(..).await? and stage_states.unwrap()
GetPipelineState ==
    /\ pc = "get_state"
    /\ \E ok \in BOOLEAN, states \in {NoneSeq} \cup { Some(l) : l \in StageLists } :
          IF ~ok
          THEN /\ Fail("get_pipeline_state")
               /\ log' = Append(log, Event("info", "Getting info for pipeline", 0))
               /\ stage_states' = stage_states
          ELSE /\ log' = log \o << Event("info", "Getting info for pipeline", 0),
                                   Event("info", "Successfully got info for pipeline", 0) >>
               /\ IF states.some
                  THEN /\ stage_states' = states.v
                       /\ pc' = "inspect"
                       /\ failure' = failure
                  ELSE /\ Panic("stage_states.unwrap")
                       /\ stage_states' = stage_states
    /\ UNCHANGED << pipelines_list, pipeline_name, cleared, size, sections,
                    stage_chunks, commit_chunks, k, frame, p_in, p_out >>

\* Only a stage with a name and an execution is logged at info level.
InspectStages_named_ok ==
    /\ pc = "inspect"
    /\ log' = log \o [j \in 1..Len(stage_states) |->
                         IF stage_states[j].stage_name.some
                         THEN Event("info", "Stage has status", j)
                         ELSE Event("error", "Could not inspect stage", j)]
    /\ pc' = "terminal"
    /\ UNCHANGED << failure, pipelines_list, pipeline_name, stage_states,
                    cleared, size, sections, stage_chunks, commit_chunks, k,
                    frame, p_in, p_out >>

\* The inspection pass over a clone of the stage list: one event per stage.
InspectStages ==
    /\ pc = "inspect"
    /\ log' = log \o [j \in 1..Len(stage_states) |-> Inspect(stage_states[j], j)]
    /\ pc' = "terminal"
    /\ UNCHANGED << failure, pipelines_list, pipeline_name, stage_states,
                    cleared, size, sections, stage_chunks, commit_chunks, k,
                    frame, p_in, p_out >>

\* Terminal::new(backend)?
TerminalNew ==
    /\ pc = "terminal"
    /\ \E ok \in BOOLEAN, s \in TermSizes :
          IF ok
          THEN /\ size' = s
               /\ pc' = "clear"
               /\ failure' = failure
          ELSE /\ Fail("Terminal::new")
               /\ size' = size
    /\ UNCHANGED << log, pipelines_list, pipeline_name, stage_states, cleared,
                    sections, stage_chunks, commit_chunks, k, frame, p_in, p_out >>

\* terminal.clear()?
TerminalClear ==
    /\ pc = "clear"
    /\ \E ok \in BOOLEAN :
          IF ok
          THEN /\ cleared' = TRUE
               /\ pc' = "split_sections"
               /\ failure' = failure
          ELSE /\ Fail("terminal.clear")
               /\ cleared' = cleared
    /\ UNCHANGED << log, pipelines_list, pipeline_name, stage_states, size,
                    sections, stage_chunks, commit_chunks, k, frame, p_in, p_out >>

----------------------------------------------------------------------------
(* The closure given to terminal.draw *)

\* The sections are split off the full terminal without a margin.
SplitSections_margin0 ==
    /\ pc = "split_sections"
    /\ sections' = partition(size, "Vertical", 0, Len(Titles))
    /\ k' = 1
    /\ pc' = "headers"
    /\ UNCHANGED << failure, log, pipelines_list, pipeline_name, stage_states,
                    cleared, size, stage_chunks, commit_chunks, frame, p_in, p_out >>

\* Vertical layout, margin 1, one Ratio(1, titles.len()) per title, of f.size().
SplitSections ==
    /\ pc = "split_sections"
    /\ sections' = partition(size, "Vertical", 1, Len(Titles))
    /\ k' = 1
    /\ pc' = "headers"
    /\ UNCHANGED << failure, log, pipelines_list, pipeline_name, stage_states,
                    cleared, size, stage_chunks, commit_chunks, frame, p_in, p_out >>

\* One element of titles.iter().zip(..).inspect(render).map(..).collect().
DrawHeader ==
    /\ pc = "headers"
    /\ LET pairs == zip(Titles, sections)
       IN  IF k <= Len(pairs)
           THEN /\ frame' = Append(frame, SectionHeader(pairs[k][1], pairs[k][2]))
                /\ k' = k + 1
                /\ pc' = pc
           ELSE /\ frame' = frame
                /\ k' = 0
                /\ pc' = "split_stages"
    /\ UNCHANGED << failure, log, pipelines_list, pipeline_name, stage_states,
                    cleared, size, sections, stage_chunks, commit_chunks,
                    p_in, p_out >>

\* Horizontal layout, margin 1, one Ratio(1, len) per stage, of sections[0].
\* main has no guard of its own for an empty stage list: the layout is asked
\* for zero regions, and either rejects the request or returns no rectangle.
SplitStages ==
    /\ pc = "split_stages"
    /\ IF Len(sections) < 1
       THEN /\ Panic("sections.get(0).unwrap")
            /\ UNCHANGED << stage_chunks, k >>
       ELSE \E rejects \in (IF Len(stage_states) = 0 THEN BOOLEAN ELSE {FALSE}) :
               IF rejects
               THEN /\ Panic("PartitionContractViolation")
                    /\ UNCHANGED << stage_chunks, k >>
               ELSE /\ stage_chunks' =
                           partition(sections[1], "Horizontal", 1, Len(stage_states))
                    /\ k' = 1
                    /\ pc' = "stages"
                    /\ failure' = failure
    /\ UNCHANGED << log, pipelines_list, pipeline_name, stage_states, cleared,
                    size, sections, commit_chunks, frame, p_in, p_out >>

\* The stage panels, each drawn into the mirrored rectangle.
DrawStage_reversed ==
    /\ pc = "stages"
    /\ LET pairs == zip_reversed(stage_states, stage_chunks)
       IN  IF k <= Len(pairs)
           THEN IF pairs[k][1].stage_name.some
                THEN /\ frame' = Append(frame, StagePanel(pairs[k][1], pairs[k][2]))
                     /\ k' = k + 1
                     /\ UNCHANGED << pc, failure >>
                ELSE /\ Panic("stage_name.unwrap")
                     /\ UNCHANGED << frame, k >>
           ELSE /\ k' = 0
                /\ pc' = "split_commits"
                /\ UNCHANGED << frame, failure >>
    /\ UNCHANGED << log, pipelines_list, pipeline_name, stage_states, cleared,
                    size, sections, stage_chunks, commit_chunks, p_in, p_out >>

\* One element of stage_states.iter().zip(..).for_each(render): the title
\* unwraps the stage name before the widget is rendered.
DrawStage ==
    /\ pc = "stages"
    /\ LET pairs == zip(stage_states, stage_chunks)
       IN  IF k <= Len(pairs)
           THEN IF pairs[k][1].stage_name.some
                THEN /\ frame' = Append(frame, StagePanel(pairs[k][1], pairs[k][2]))
                     /\ k' = k + 1
                     /\ UNCHANGED << pc, failure >>
                ELSE /\ Panic("stage_name.unwrap")
                     /\ UNCHANGED << frame, k >>
           ELSE /\ k' = 0
                /\ pc' = "split_commits"
                /\ UNCHANGED << frame, failure >>
    /\ UNCHANGED << log, pipelines_list, pipeline_name, stage_states, cleared,
                    size, sections, stage_chunks, commit_chunks, p_in, p_out >>

\* The placeholder cells laid out with the margin of the stage panels.
SplitCommits_margin1 ==
    /\ pc = "split_commits"
    /\ IF Len(sections) < 2
       THEN /\ Panic("sections.get(1).unwrap")
            /\ UNCHANGED << commit_chunks, k >>
       ELSE /\ commit_chunks' =
                   partition(sections[2], "Horizontal", 1, Len(stage_states))
            /\ k' = 1
            /\ pc' = "commits"
            /\ failure' = failure
    /\ UNCHANGED << log, pipelines_list, pipeline_name, stage_states, cleared,
                    size, sections, stage_chunks, frame, p_in, p_out >>

\* Horizontal layout, margin 0, one Ratio(1, len) per stage, of sections[1].
SplitCommits ==
    /\ pc = "split_commits"
    /\ IF Len(sections) < 2
       THEN /\ Panic("sections.get(1).unwrap")
            /\ UNCHANGED << commit_chunks, k >>
       ELSE /\ commit_chunks' =
                   partition(sections[2], "Horizontal", 0, Len(stage_states))
            /\ k' = 1
            /\ pc' = "commits"
            /\ failure' = failure
    /\ UNCHANGED << log, pipelines_list, pipeline_name, stage_states, cleared,
                    size, sections, stage_chunks, frame, p_in, p_out >>

\* One element of stage_states.iter().zip(..).for_each(render placeholder).
DrawPlaceholder ==
    /\ pc = "commits"
    /\ LET pairs == zip(stage_states, commit_chunks)
       IN  IF k <= Len(pairs)
           THEN /\ frame' = Append(frame, Placeholder(pairs[k][2]))
                /\ k' = k + 1
                /\ pc' = pc
           ELSE /\ frame' = frame
                /\ k' = 0
                /\ pc' = "flush"
    /\ UNCHANGED << failure, log, pipelines_list, pipeline_name, stage_states,
                    cleared, size, sections, stage_chunks, commit_chunks,
                    p_in, p_out >>

\* terminal.draw(..)? returns and main ends with Ok(()).
Flush ==
    /\ pc = "flush"
    /\ \E ok \in BOOLEAN :
          IF ok THEN pc' = "done" /\ failure' = failure ELSE Fail("terminal.draw")
    /\ UNCHANGED << log, pipelines_list, pipeline_name, stage_states, cleared,
                    size, sections, stage_chunks, commit_chunks, k, frame,
                    p_in, p_out >>

Next ==
    \/ Setup
    \/ ListPipelines
    \/ FindPipeline
    \/ GetPipelineState
    \/ InspectStages
    \/ TerminalNew
    \/ TerminalClear
    \/ SplitSections
    \/ DrawHeader
    \/ SplitStages
    \/ DrawStage
    \/ SplitCommits
    \/ DrawPlaceholder
    \/ Flush

Spec == Init /\ [][Next]_vars

----------------------------------------------------------------------------
(* Vocabulary of the properties *)

\* The draw commands issued from one render_widget call site, in issue order.
Issued(site) == SelectSeq(frame, LAMBDA w : w.site = site)

AfterSections ==
    {"headers", "split_stages", "stages", "split_commits", "commits", "flush", "done"}

AfterStageSplit == {"stages", "split_commits", "commits", "flush", "done"}

AfterStages == {"split_commits", "commits", "flush", "done"}

AfterCommitSplit == {"commits", "flush", "done"}

AfterInspect == {"terminal", "clear", "split_sections"} \cup AfterSections

RECURSIVE SumOf(_, _)
SumOf(f, n) == IF n = 0 THEN 0 ELSE f[n] + SumOf(f, n - 1)

----------------------------------------------------------------------------
(* C1 *)

\* C1: every stage panel drawn has the border colour the decision table gives
\* for its stage's optional status (InProgress light blue, Failed red,
\* Succeeded green, any other present code light yellow, absent red), every
\* stage gets a panel once the stage loop is over, and the frame aborts only
\* at a stage without a name or for an empty stage list: no status value,
\* known or unknown, causes an abort.
C1_StatusColour ==
    LET panels == Issued("stage")
    IN  /\ \A j \in 1..Len(panels) :
              LET st == stage_states[j].latest_execution
                  c == panels[j].fg
              IN  /\ (st = Some("InProgress") => c = "LightBlue")
                  /\ (st = Some("Failed") => c = "Red")
                  /\ (st = Some("Succeeded") => c = "Green")
                  /\ (st.some /\ st.v \notin {"InProgress", "Failed", "Succeeded"}
                         => c = "LightYellow")
                  /\ (~st.some => c = "Red")
        /\ (pc \in AfterStages => Len(panels) = Len(stage_states))
        /\ (pc = "panicked" /\ cleared =>
               \/ /\ failure = "stage_name.unwrap"
                  /\ ~stage_states[k].stage_name.some
               \/ /\ failure = "PartitionContractViolation"
                  /\ Len(stage_states) = 0)

\* C1 witness: a finished frame with a panel for an unrecognised code and one
\* for a stage without a status.
C1_Witness ==
    /\ pc = "done"
    /\ \E i, j \in 1..Len(stage_states) :
          /\ stage_states[i].latest_execution = Some("Paused")
          /\ ~stage_states[j].latest_execution.some
          /\ Issued("stage")[i].fg = "LightYellow"
          /\ Issued("stage")[j].fg = "Red"

----------------------------------------------------------------------------
(* C2 *)

\* C2: partition returns exactly count rectangles that start at the margined
\* origin, are contiguous and pairwise non-overlapping along the split axis,
\* have span lengths floor(L*(j+1)/count) - floor(L*j/count) that sum to L,
\* and have the full margin-adjusted length on the other axis.
C2_Tiling ==
    pc = "probed" =>
        LET a == p_in.area
            m == p_in.margin
            n == p_in.count
            row == p_in.direction = "Horizontal"
            iw == IF a.width >= 2 * m THEN a.width - 2 * m ELSE 0
            ih == IF a.height >= 2 * m THEN a.height - 2 * m ELSE 0
            L == IF row THEN iw ELSE ih
            start == [j \in 1..Len(p_out) |-> IF row THEN p_out[j].x ELSE p_out[j].y]
            span == [j \in 1..Len(p_out) |->
                        IF row THEN p_out[j].width ELSE p_out[j].height]
        IN  /\ Len(p_out) = n
            /\ start[1] = (IF row THEN a.x + m ELSE a.y + m)
            /\ \A j \in 1..(n - 1) : start[j + 1] = start[j] + span[j]
            /\ \A i, j \in 1..n : i < j => start[i] + span[i] <= start[j]
            /\ \A j \in 1..n : span[j] = ((L * j) \div n) - ((L * (j - 1)) \div n)
            /\ SumOf(span, n) = L
            /\ \A j \in 1..n :
                  IF row
                  THEN p_out[j].y = a.y + m /\ p_out[j].height = ih
                  ELSE p_out[j].x = a.x + m /\ p_out[j].width = iw

\* C2 witness: a margined length that count does not divide, so the spans differ.
C2_Witness ==
    /\ pc = "probed"
    /\ p_in.direction = "Horizontal"
    /\ p_in.margin = 1
    /\ p_in.count = 3
    /\ p_in.area.width = 9
    /\ p_out[1].width = 2
    /\ p_out[3].width = 3

----------------------------------------------------------------------------
(* C3 *)

\* C3: on every terminal, however small, each split of the frame returns as
\* many rectangles as were requested, none with a negative width or height; a
\* dimension smaller than twice the margin leaves an interior of length zero
\* on that axis, also in the nested split of the "Stages" section; and no
\* split makes the frame fail.
C3_MarginClamp ==
    /\ \A r \in {sections[j] : j \in 1..Len(sections)}
              \cup {stage_chunks[j] : j \in 1..Len(stage_chunks)}
              \cup {commit_chunks[j] : j \in 1..Len(commit_chunks)} :
          r.width >= 0 /\ r.height >= 0
    /\ (pc \in AfterSections =>
           /\ Len(sections) = 2
           /\ (size.width < 2 => \A j \in 1..2 : sections[j].width = 0)
           /\ (size.height < 2 => \A j \in 1..2 : sections[j].height = 0))
    /\ (pc \in AfterStageSplit =>
           /\ Len(stage_chunks) = Len(stage_states)
           /\ (sections[1].width < 2 =>
                  \A j \in 1..Len(stage_chunks) : stage_chunks[j].width = 0)
           /\ (sections[1].height < 2 =>
                  \A j \in 1..Len(stage_chunks) : stage_chunks[j].height = 0))
    /\ (pc \in AfterCommitSplit => Len(commit_chunks) = Len(stage_states))
    /\ failure \notin {"sections.get(0).unwrap", "sections.get(1).unwrap"}
    /\ (failure = "PartitionContractViolation" => Len(stage_states) = 0)

\* C3 witness: a frame that completes on a terminal whose "Stages" section is
\* one column wide, so that only the nested split clamps the width.
C3_Witness ==
    /\ pc = "done"
    /\ size.width = 3
    /\ sections[1].width = 1
    /\ Len(stage_chunks) >= 2
    /\ \A j \in 1..Len(stage_chunks) : stage_chunks[j].width = 0

----------------------------------------------------------------------------
(* C4 *)

\* C4: the stage panels are issued in stage order: the j-th carries the name
\* of the j-th stage as its title and targets the j-th rectangle of the
\* horizontal split of the "Stages" section, whose x origin is left of the
\* next one's (equal only for a zero-width span); no stage is drawn twice,
\* out of order or into another stage's rectangle.
C4_StageOrder ==
    LET panels == Issued("stage")
    IN  /\ Len(panels) <= Len(stage_states)
        /\ (pc \in AfterStages => Len(panels) = Len(stage_states))
        /\ \A j \in 1..Len(panels) :
              /\ panels[j].title = stage_states[j].stage_name
              /\ panels[j].area = stage_chunks[j]
        /\ \A j \in 1..(Len(panels) - 1) :
              /\ panels[j].area.x <= panels[j + 1].area.x
              /\ (panels[j].area.width > 0 => panels[j].area.x < panels[j + 1].area.x)
        /\ \A i, j \in 1..Len(panels) : i # j => panels[i].title # panels[j].title

\* C4 witness: three stages drawn left to right into spans of positive width.
C4_Witness ==
    /\ pc = "done"
    /\ Len(Issued("stage")) = 3
    /\ Issued("stage")[1].area.x < Issued("stage")[2].area.x
    /\ Issued("stage")[2].area.x < Issued("stage")[3].area.x
    /\ Issued("stage")[3].title = Some("Deploy")

----------------------------------------------------------------------------
(* C5 *)

\* C5 (as claimed): no stage panel is rendered for a stage without a name and
\* no run aborts because of such a stage.
C5_NamelessNeverReachesRender ==
    /\ \A j \in 1..Len(Issued("stage")) : stage_states[j].stage_name.some
    /\ failure # "stage_name.unwrap"

----------------------------------------------------------------------------
(* C6 *)

FetchFailures ==
    {"list_pipelines", "No pipelines!",
     "Couldn't find the DavidTestStack pipeline!", "get_pipeline_state",
     "stage_states.unwrap"}

\* C6: once the fetch has failed (listing failed, no pipeline list, no
\* matching pipeline, state request failed, no stage list) the run has ended
\* abnormally, the terminal has not been cleared and no draw command has been
\* issued.
C6_FetchFailureIsFatal ==
    failure \in FetchFailures =>
        /\ pc \in {"error", "panicked"}
        /\ ~cleared
        /\ frame = << >>
        /\ sections = << >>

\* C6 witness: the state request failed after a pipeline was found.
C6_Witness ==
    /\ failure = "get_pipeline_state"
    /\ pc = "error"
    /\ Len(pipeline_name) > 0

----------------------------------------------------------------------------
(* C7 *)

\* The stages of the fetched list that have a name and no execution status.
NamedWithoutStatus ==
    { j \in 1..Len(stage_states) :
        stage_states[j].stage_name.some /\ ~stage_states[j].latest_execution.some }

ErrorEventsFor(j) ==
    { i \in 1..Len(log) : log[i].level = "error" /\ log[i].stage = j }

PanelsTitled(name) ==
    { i \in 1..Len(frame) : frame[i].site = "stage" /\ frame[i].title = Some(name) }

----------------------------------------------------------------------------
(* C8 *)

\* C8 (as claimed): a run whose stage list is empty never completes
\* successfully having drawn no stage panel; the render pass aborts.
C8_EmptyListAborts ==
    ~(pc = "done" /\ Len(stage_states) = 0 /\ Issued("stage") = << >>)

----------------------------------------------------------------------------
(* C9 *)

\* C9: on a 120x40 surface with stages Build (Succeeded), Test (Failed) and
\* Deploy (no status) the frame has two stacked sections of 19 rows inside the
\* 118x38 interior, three side-by-side stage rectangles inside the 116-column
\* interior of "Stages" whose widths differ by at most 1 and sum to 116, and
\* exactly three stage panels, Build green, Test red, Deploy red in this
\* order, each titled in bold with a thick border.
C9_Scenario ==
    (size = ScenarioSize /\ stage_states = ScenarioStages /\ pc = "done") =>
        LET panels == Issued("stage")
        IN  /\ sections = << Rect(1, 1, 118, 19), Rect(1, 20, 118, 19) >>
            /\ Len(stage_chunks) = 3
            /\ stage_chunks[1].x = 2
            /\ \A j \in 1..2 :
                  stage_chunks[j + 1].x = stage_chunks[j].x + stage_chunks[j].width
            /\ stage_chunks[1].width + stage_chunks[2].width
                  + stage_chunks[3].width = 116
            /\ \A i, j \in 1..3 :
                  stage_chunks[i].width - stage_chunks[j].width <= 1
            /\ \A j \in 1..3 : stage_chunks[j].y = 2 /\ stage_chunks[j].height = 17
            /\ [j \in 1..Len(panels) |-> panels[j].title]
                  = << Some("Build"), Some("Test"), Some("Deploy") >>
            /\ [j \in 1..Len(panels) |-> panels[j].fg] = << "Green", "Red", "Red" >>
            /\ \A j \in 1..Len(panels) :
                  /\ panels[j].bold
                  /\ panels[j].border_type = "Thick"
                  /\ panels[j].borders = "ALL"
                  /\ panels[j].area = stage_chunks[j]

\* C9 witness: the scenario's frame has completed.
C9_Witness ==
    /\ pc = "done"
    /\ size = ScenarioSize
    /\ stage_states = ScenarioStages
    /\ Len(frame) = 8

----------------------------------------------------------------------------
(* C10 *)

\* Rectangle r lies inside the margin-1 interior of rectangle s.
InsideInterior(r, s) ==
    LET iw == IF s.width >= 2 THEN s.width - 2 ELSE 0
        ih == IF s.height >= 2 THEN s.height - 2 ELSE 0
    IN  /\ s.x + 1 <= r.x
        /\ r.x + r.width <= s.x + 1 + iw
        /\ s.y + 1 <= r.y
        /\ r.y + r.height <= s.y + 1 + ih

\* C10: the draw commands come in the fixed sequence "Stages" header,
\* "Commits" header, the stage panels, the placeholders: no stage panel
\* precedes the two headers and no placeholder precedes the last stage panel;
\* a completed frame of n >= 1 stages holds exactly 2 + 2n commands, the
\* headers thick-bordered in the accent colour on the two sections, the n
\* panels inside the margin-1 interior of "Stages", and n borderless
\* placeholders that tile the whole "Commits" section.
C10_FrameSequence ==
    LET n == Len(stage_states)
    IN  /\ \A i \in 1..Len(frame) :
              /\ (i <= 2 => frame[i] = SectionHeader(Titles[i], sections[i]))
              /\ (frame[i].site = "section" => i <= 2)
              /\ (frame[i].site = "stage" => 2 < i /\ i <= 2 + n)
              /\ (frame[i].site = "commit" => 2 + n < i /\ i <= 2 + 2 * n)
        /\ (pc = "done" /\ n >= 1 =>
               /\ Len(frame) = 2 + 2 * n
               /\ \A i \in 1..2 :
                     /\ frame[i].title = Some(Titles[i])
                     /\ frame[i].border_type = "Thick"
                     /\ frame[i].borders = "ALL"
                     /\ frame[i].fg = AccentColor
               /\ \A j \in 1..n :
                     /\ frame[2 + j].site = "stage"
                     /\ frame[2 + j].fg \in {"LightBlue", "Red", "Green", "LightYellow"}
                     /\ InsideInterior(frame[2 + j].area, sections[1])
               /\ \A j \in 1..n :
                     /\ frame[2 + n + j].site = "commit"
                     /\ frame[2 + n + j].borders = "NONE"
                     /\ ~frame[2 + n + j].title.some
                     /\ frame[2 + n + j].area.y = sections[2].y
                     /\ frame[2 + n + j].area.height = sections[2].height
               /\ frame[2 + n + 1].area.x = sections[2].x
               /\ \A j \in 1..(n - 1) :
                     frame[2 + n + j + 1].area.x
                         = frame[2 + n + j].area.x + frame[2 + n + j].area.width
               /\ frame[2 + 2 * n].area.x + frame[2 + 2 * n].area.width
                     = sections[2].x + sections[2].width)

\* C10 witness: a completed frame of two stages, six commands, whose
\* placeholders have positive width.
C10_Witness ==
    /\ pc = "done"
    /\ Len(stage_states) = 2
    /\ Len(frame) = 6
    /\ frame[5].site = "commit"
    /\ frame[5].area.width > 0
    /\ frame[6].area.width > 0

====
